---- MODULE Spec2Model ----
(***************************************************************************)
(* Request admission and identity layer of the banking-assistant backend:  *)
(* the per-key token bucket of common/rate_limit.py, the JWKS key cache    *)
(* and token verifier of common/auth.py, and the way the three FastAPI     *)
(* services compose them.                                                   *)
(*                                                                         *)
(* Time is counted in clock ticks.  One token is refilled every            *)
(* TicksPerToken ticks (1/rps seconds), and token counts are kept in       *)
(* units of 1/TicksPerToken token, so that `elapsed * rps` is exact:       *)
(* one tick refills one unit and 1.0 token is TicksPerToken units.         *)
(***************************************************************************)
EXTENDS Integers, Sequences, FiniteSets, TLC

\* ------------------------------------------------------------------ bounds
MaxBurst == 2
TicksPerToken == 2
MaxTime == 2
NReq == 2

Max(a, b) == IF a >= b THEN a ELSE b
Min(a, b) == IF a <= b THEN a ELSE b

\* ------------------------------------------------------- rate limiter data
Slots == 1..NReq

\* A limiter that exempts no path.
AllowListNone == {}

\* dispatch, line 63: the paths it does not check.
AllowList == {"/healthz", "/docs", "/openapi.json"}

\* request.client is None
NoClient == ""

\* _key that ignores the header.
KeyAddressOnly(hdr, ip) == <<"ip", IF ip = NoClient THEN "unknown" ELSE ip>>

\* RateLimitMiddleware._key: "user:" + the x-user-id header when it is present
\* and non-empty, "ip:" + the client address otherwise ("unknown" when the
\* request has no client).
Key(hdr, ip) ==
  IF hdr # "" THEN <<"user", hdr>>
  ELSE <<"ip", IF ip = NoClient THEN "unknown" ELSE ip>>

Hdrs == {"", "u1"}
Ips == {"10.0.0.1"}
Keys == {Key(h, i) : h \in Hdrs, i \in Ips}

\* self._buckets.get(key) is None
NoBucket == [tokens |-> -1, updated_at |-> -1]

\* 1.0 token, in units
OneToken == TicksPerToken

\* float(self.burst), in units
Capacity(cap) == cap * TicksPerToken

VARIABLES
  now,          \* time.time()
  enabled,      \* RateLimitMiddleware.enabled (settings.rate_limit_enabled)
  burst,        \* RateLimitMiddleware.burst (settings.rate_limit_burst)
  buckets,      \* RateLimitMiddleware._buckets
  svc,          \* which of the three applications this process runs
  disable_auth, \* settings.disable_auth
  jwks_url,     \* settings.jwks_url is set
  pyjwt,        \* the installed jwt library's test of "exp": "le" or "lt"
  cache,        \* the process-wide _JWKSCache: _keys_by_kid and _fetched_at
  pc,           \* where each in-flight request is
  rq,           \* each in-flight request: what it carries and what happened to it
  lastDoc,      \* the document of the latest successful key-set fetch
  watch,        \* the key whose admission checks the history below follows
  last,         \* the outcome of the latest admission check of the watched key
  phase,        \* how that check relates to a preceding rejection
  batchN,       \* checks of the watched key in the current run at one clock reading
  batchAdm,     \* admissions in that run
  batchStart,   \* the bucket at the start of that run: new, full, partial
  winOpen,      \* an interval of checks of the watched key is being followed
  winStart,     \* the clock reading of the first check of the interval
  winLast,      \* the clock reading of its latest check
  winAdm        \* the admissions granted in it

limiterVars == <<now, enabled, burst, buckets>>
configVars == <<svc, disable_auth, jwks_url, pyjwt>>
authVars == <<cache, lastDoc>>
slotVars == <<pc, rq>>
seqVars == <<last, phase>>
batchVars == <<batchN, batchAdm, batchStart>>
winVars == <<winOpen, winStart, winLast, winAdm>>
histVars == <<watch, seqVars, batchVars, winVars>>
vars == <<limiterVars, configVars, authVars, slotVars, histVars>>

\* The counter of a run saturates above every capacity of the model.
BatchCap == MaxBurst + 2

\* The counter of an interval saturates above every bound of the model.
WinCap == MaxBurst + MaxTime + 2

\* Refill that forgets the elapsed time.
RefillNoAdd(b, t, cap) ==
  [tokens |-> Min(Capacity(cap), b.tokens), updated_at |-> t]

\* Refill without the cap at burst.
RefillUncapped(b, t, cap) ==
  [tokens |-> b.tokens + Max(0, t - b.updated_at), updated_at |-> t]

\* _consume, lines 53-56: refill by elapsed * rps, capped at burst.
Refill(b, t, cap) ==
  [tokens |-> Min(Capacity(cap), b.tokens + Max(0, t - b.updated_at)),
   updated_at |-> t]

\* _consume that admits without writing the spent token back.
ConsumeNoSpend(bk, k, t, cap) ==
  LET b0 == IF bk[k] = NoBucket
            THEN [tokens |-> Capacity(cap), updated_at |-> t]
            ELSE bk[k]
      b1 == Refill(b0, t, cap)
  IN [buckets |-> [bk EXCEPT ![k] = b1], raised |-> b1.tokens < OneToken]

\* _consume that rejects at `tokens <= 1.0`.
ConsumeLe(bk, k, t, cap) ==
  LET b0 == IF bk[k] = NoBucket
            THEN [tokens |-> Capacity(cap), updated_at |-> t]
            ELSE bk[k]
      b1 == Refill(b0, t, cap)
      ok == ~(b1.tokens <= OneToken)
      b2 == IF ok THEN [b1 EXCEPT !.tokens = @ - OneToken] ELSE b1
  IN [buckets |-> [bk EXCEPT ![k] = b2], raised |-> ~ok]

\* _consume: the bucket is created full on the first sight of the key, refilled,
\* and one token is spent unless fewer than 1.0 are left, in which case the
\* refilled bucket is kept and HTTPException(429) is raised.
Consume(bk, k, t, cap) ==
  LET b0 == IF bk[k] = NoBucket
            THEN [tokens |-> Capacity(cap), updated_at |-> t]
            ELSE bk[k]
      b1 == Refill(b0, t, cap)
      ok == ~(b1.tokens < OneToken)
      b2 == IF ok THEN [b1 EXCEPT !.tokens = @ - OneToken] ELSE b1
  IN [buckets |-> [bk EXCEPT ![k] = b2], raised |-> ~ok]

\* History: the run of checks of the watched key made at one clock reading.
RecordBatch(k, t, raised) ==
  LET b == buckets[k]
      same == b # NoBucket /\ b.updated_at = t
      start == IF b = NoBucket THEN "new"
               ELSE IF Refill(b, t, burst).tokens = Capacity(burst) THEN "full"
               ELSE "partial"
  IN IF k # watch THEN UNCHANGED batchVars
     ELSE /\ batchN' = IF same THEN Min(BatchCap, batchN + 1) ELSE 1
          /\ batchAdm' = (IF same THEN batchAdm ELSE 0) + (IF raised THEN 0 ELSE 1)
          /\ batchStart' = IF same THEN batchStart ELSE start

\* History: the latest outcome for the watched key, and whether the check came
\* exactly 1/rps after a rejection ("waited") or straight after such a check
\* at the same clock reading ("after").
RecordSeq(k, t, raised) ==
  LET b == buckets[k]
  IN IF k # watch THEN UNCHANGED seqVars
     ELSE /\ last' = IF raised THEN "rejected" ELSE "admitted"
          /\ phase' =
               IF b # NoBucket /\ last = "rejected" /\ t = b.updated_at + TicksPerToken
               THEN "waited"
               ELSE IF phase = "waited" /\ b.updated_at = t THEN "after" ELSE "none"

\* History: the interval that starts with a check of the watched key (open)
\* and goes on as long as the clock readings of its checks do not decrease.
RecordWindow(k, t, raised, open) ==
  LET adm == IF raised THEN 0 ELSE 1
  IN IF k # watch THEN UNCHANGED winVars
     ELSE IF open
     THEN /\ winOpen' = TRUE
          /\ winStart' = t
          /\ winLast' = t
          /\ winAdm' = adm
     ELSE IF winOpen /\ t >= winLast
     THEN /\ winLast' = t
          /\ winAdm' = Min(WinCap, winAdm + adm)
          /\ UNCHANGED <<winOpen, winStart>>
     ELSE /\ winOpen' = FALSE
          /\ winStart' = 0
          /\ winLast' = 0
          /\ winAdm' = 0

\* ----------------------------------------------------- key cache and verifier
TtlTicks == 1

Kids == {"k1", "k2"}

\* A key-set document: its entries, each named by its "kid"; "" is an entry
\* that carries none.
Docs == {{}, {"k1"}, {"k2"}, {"k1", "k2"}, {"", "k1"}}

\* What a key-set fetch can end with instead of a document.
FetchFailures == {"timeout", "status_503", "not_json"}

\* The outcomes of a key-set fetch: one of the documents, or a failure.
FetchOutcomes(docs) ==
  {[ok |-> TRUE, doc |-> d, err |-> ""] : d \in docs}
    \cup {[ok |-> FALSE, doc |-> {}, err |-> e] : e \in FetchFailures}

\* _JWKSCache(jwks_url): _keys_by_kid is None, _fetched_at is 0.0
EmptyCache == [loaded |-> FALSE, kids |-> {}, fetched_at |-> 0]

\* _JWKSCache._expired: no key loaded (None or an empty mapping), or older than
\* the time to live.
Expired(c, t) == (~c.loaded \/ c.kids = {}) \/ (t - c.fetched_at) > TtlTicks

\* self._keys_by_kid.get(kid), after `if not self._keys_by_kid: return None`
Found(c, kid) == c.loaded /\ kid \in c.kids

\* refresh that adds the fetched keys to the cached ones.
RefreshedMerge(c, doc, t) ==
  [loaded |-> TRUE, kids |-> c.kids \cup {k \in doc : k # ""}, fetched_at |-> t]

\* refresh, lines 36-38: the mapping built from the entries that carry a kid
\* replaces the cached one, and the fetch time is reset.
Refreshed(c, doc, t) ==
  [loaded |-> TRUE, kids |-> {k \in doc : k # ""}, fetched_at |-> t]

\* refresh that resets the fetch time before it knows the fetch succeeded.
RefreshStamp(c, out, t) ==
  IF out.ok THEN Refreshed(c, out.doc, t) ELSE [c EXCEPT !.fetched_at = t]

\* refresh(): an exception from the `with` block (connection failure, timeout,
\* raise_for_status, r.json()) leaves before any assignment; a document
\* replaces the cached key set.
Refresh(c, out, t) == IF out.ok THEN Refreshed(c, out.doc, t) ELSE c

\* ---------------------------------------------------------------- requests
Services == {"api_gateway_local", "conversation_service", "transaction_service"}

\* The routes of each application (one of each kind of declaration).
Endpoints(s) ==
  IF s = "api_gateway_local" THEN {"/healthz", "/v1/chat/message"}
  ELSE IF s = "conversation_service" THEN {"/healthz", "/v1/conversation/message"}
  ELSE {"/healthz", "/v1/users/{customer_id}/transactions", "/v1/debug/users"}

\* The routes every application has besides its data routes: its health check
\* and the documentation routes FastAPI adds; they declare no dependency.
OpenRoutes == {"/healthz", "/docs", "/openapi.json"}

\* The routes declared with Depends(require_auth(settings)): the gateway's.  The
\* conversation service imports require_auth and never uses it; the transaction
\* service gives require_auth(settings) as a parameter's default value, which
\* FastAPI does not call.
AuthDependency(s, path) == s = "api_gateway_local" /\ path \notin OpenRoutes

\* The routes whose handler calls another service.
CallsDownstream(s, path) == s = "api_gateway_local" /\ path \notin OpenRoutes

\* A claim the token's payload does not carry.
Absent == "<absent>"

\* The Authorization header: none, or a bearer token with what its header and
\* payload say (alg, kid, sub) and the state of its signature.
\* exp is the set of the payload's "exp" values: empty when it has none.
NoAuth ==
  [scheme |-> "none", parse |-> FALSE, kid |-> "", sig |-> "none",
   alg |-> "none", sub |-> Absent, exp |-> {}]
Bearer(parse, kid, sig) ==
  [scheme |-> "bearer", parse |-> parse, kid |-> kid, sig |-> sig,
   alg |-> IF parse THEN "RS256" ELSE "none",
   sub |-> IF parse THEN "alice" ELSE Absent,
   exp |-> {}]

\* The token with an expiry time.
WithExp(a, e) == [a EXCEPT !.exp = {e}]

\* A header of another scheme ("Basic ...").
Basic == [NoAuth EXCEPT !.scheme = "basic"]

\* The token with another "alg" in its header.
WithAlg(a, alg) == [a EXCEPT !.alg = alg]

\* The token without a "sub" claim.
WithoutSub(a) == [a EXCEPT !.sub = Absent]

\* What _dep returns: no identity yet, the placeholder of the bypass, or the
\* claims jwt.decode returns.
NoClaims == [sub |-> Absent, scope |-> Absent]
LocalClaims == [sub |-> "local-user", scope |-> "local"]
TokenClaims(a) == [sub |-> a.sub, scope |-> Absent]

\* Exceptions.  Every HTTPException of the code is built from status_code and
\* detail alone: its headers are None.
NoExc == [http |-> FALSE, status |-> 0, detail |-> "", headers |-> {}]
HttpExc(status, detail) ==
  [http |-> TRUE, status |-> status, detail |-> detail, headers |-> {}]
OtherExc(name) == [http |-> FALSE, status |-> -1, detail |-> name, headers |-> {}]
NoResp == [status |-> 0, detail |-> ""]

\* The headers of the request the gateway sends to another service: none sent
\* yet, or the dict the handler builds.
NoFwd == [sent |-> FALSE, x_user_id |-> Absent, authorization |-> Absent]

\* No call of another service has ended for the request.
NoAnswer == -1
ServerError == [status |-> 500, detail |-> "Internal Server Error"]

NoRq ==
  [path |-> "", hdr |-> "", ip |-> "", auth |-> NoAuth,
   rl |-> "none", idn |-> "none", trace |-> <<>>,
   site |-> "none", fetches |-> 0, lastFetch |-> "none", missFresh |-> FALSE,
   claims |-> NoClaims, decoded |-> FALSE, fwd |-> NoFwd, down |-> NoAnswer,
   exc |-> NoExc, resp |-> NoResp]

\* What the client gets for an exception.  The applications register
\* RateLimitMiddleware with add_middleware, which puts it outside the
\* ExceptionMiddleware that turns an HTTPException into its response: what
\* dispatch raises reaches ServerErrorMiddleware, which answers 500.  An
\* HTTPException raised by a dependency or a handler is answered with its own
\* status and detail; any other exception is answered 500.
Respond(e, where) ==
  IF where = "route" /\ e.http
  THEN [status |-> e.status, detail |-> e.detail]
  ELSE ServerError

Raised(q, e, where) == [q EXCEPT !.exc = e, !.resp = Respond(e, where)]

\* A rejection that lets the request go on to the handler.
StopContinue(q, e) == [pc |-> "handler", q |-> Raised(q, e, "route")]

\* An exception raised while the route is served ends the request.
Stop(q, e) == [pc |-> "done", q |-> Raised(q, e, "route")]

\* The "kty" of the key-set entry a kid names: the entry "ec" holds an
\* elliptic-curve key, the others RSA keys.
Kty(kid) == IF kid = "ec" THEN "EC" ELSE "RSA"

\* jwt.decode(..., leeway=10), line 84, in seconds.
Leeway == 10

\* An expiry test that forgets the leeway.
JwtExpiredNoLeeway(exp, t) == exp <= t

\* jwt.decode's test of the "exp" claim at time t, raising
\* ExpiredSignatureError.  The test belongs to the jwt library, which the
\* repository does not pin: its releases differ at the boundary.  Current ones
\* test exp <= now - leeway, earlier ones exp < now - leeway.
JwtExpired(exp, t) ==
  IF pyjwt = "le" THEN exp <= t - Leeway ELSE exp < t - Leeway

\* RSAAlgorithm.from_jwk(jwk), line 73, outside any try: a key that is no RSA
\* key raises InvalidKeyError.  Then jwt.decode(..., algorithms=["RS256"]) and
\* its except clauses, lines 76-91: another "alg" is an InvalidTokenError, as
\* is a bad signature.
\* The signature is checked first, then the "exp" claim with the leeway.
Decode(q) ==
  LET d == [q EXCEPT !.decoded = TRUE]
  IN IF Kty(q.auth.kid) # "RSA" THEN Stop(q, OtherExc("InvalidKeyError"))
     ELSE IF q.auth.alg # "RS256" THEN Stop(d, HttpExc(401, "JWT invalid"))
     ELSE IF q.auth.sig # "valid" THEN Stop(d, HttpExc(401, "JWT invalid"))
     ELSE IF \E e \in q.auth.exp : JwtExpired(e, now)
     THEN Stop(d, HttpExc(401, "JWT expired"))
     ELSE [pc |-> "handler",
           q |-> [d EXCEPT !.idn = "verified", !.claims = TokenClaims(q.auth)]]

\* refresh() starts: the blocking GET of the key set.
StartFetch(q, site) ==
  [pc |-> "fetch", q |-> [q EXCEPT !.site = site, !.fetches = @ + 1]]

\* verify_jwt_token, lines 64-68: the key is looked up; a miss starts the
\* "refresh once and retry".
FirstLookup(q, c) ==
  IF Found(c, q.auth.kid) THEN Decode(q) ELSE StartFetch(q, "refresh")

\* verify_jwt_token, lines 69-71: the lookup of the retry.
RetryLookup(q, c) ==
  IF Found(c, q.auth.kid) THEN Decode(q)
  ELSE Stop(q, HttpExc(401, "Unknown JWT kid"))

\* _JWKSCache.get_key as called on line 64
GetKeyFirst(q, c, t) ==
  IF Expired(c, t) THEN StartFetch(q, "get_key") ELSE FirstLookup(q, c)

\* _JWKSCache.get_key as called on line 69
GetKeyRetry(q, c, t) ==
  IF Expired(c, t) THEN StartFetch(q, "retry") ELSE RetryLookup(q, c)

\* Where verify_jwt_token goes on once a refresh has replaced the cache.
AfterFetch(q, c, t) ==
  IF q.site = "get_key" THEN FirstLookup(q, c)
  ELSE IF q.site = "refresh" THEN GetKeyRetry(q, c, t)
  ELSE RetryLookup(q, c)

\* verify_jwt_token that asks the key cache before it reads the token's header.
VerifyJwtCacheFirst(q, c, t) ==
  IF ~jwks_url THEN Stop(q, HttpExc(500, "JWKS_URL is not configured"))
  ELSE IF Expired(c, t) THEN StartFetch(q, "get_key")
  ELSE IF ~q.auth.parse THEN Stop(q, HttpExc(401, "Invalid JWT header"))
  ELSE IF q.auth.kid = "" THEN Stop(q, HttpExc(401, "JWT missing kid"))
  ELSE FirstLookup(q, c)

\* verify_jwt_token, lines 51-64
VerifyJwt(q, c, t) ==
  IF ~jwks_url THEN Stop(q, HttpExc(500, "JWKS_URL is not configured"))
  ELSE IF ~q.auth.parse THEN Stop(q, HttpExc(401, "Invalid JWT header"))
  ELSE IF q.auth.kid = "" THEN Stop(q, HttpExc(401, "JWT missing kid"))
  ELSE GetKeyFirst([q EXCEPT !.missFresh = ~Expired(c, t) /\ ~Found(c, q.auth.kid)], c, t)

\* _dep that looks at the Authorization header before the bypass flag.
DepHeaderFirst(q, c, t) ==
  IF q.auth.scheme # "bearer"
  THEN Stop(q, HttpExc(401, "Missing Authorization Bearer token"))
  ELSE IF disable_auth
  THEN [pc |-> "handler", q |-> [q EXCEPT !.idn = "bypass", !.claims = LocalClaims]]
  ELSE VerifyJwt(q, c, t)

\* _dep that lets a request without a bearer token in as the local user.
DepLenient(q, c, t) ==
  IF disable_auth \/ q.auth.scheme # "bearer"
  THEN [pc |-> "handler", q |-> [q EXCEPT !.idn = "bypass", !.claims = LocalClaims]]
  ELSE VerifyJwt(q, c, t)

\* require_auth._dep
Dep(q, c, t) ==
  IF disable_auth
  THEN [pc |-> "handler", q |-> [q EXCEPT !.idn = "bypass", !.claims = LocalClaims]]
  ELSE IF q.auth.scheme # "bearer"
  THEN Stop(q, HttpExc(401, "Missing Authorization Bearer token"))
  ELSE VerifyJwt(q, c, t)

\* -------------------------------------------------------------------- Init
NoWatch == <<"none", "">>

HistInit ==
  /\ last = "none"
  /\ phase = "none"
  /\ batchN = 0
  /\ batchAdm = 0
  /\ batchStart = "none"
  /\ winOpen = FALSE
  /\ winStart = 0
  /\ winLast = 0
  /\ winAdm = 0

ProcessInit ==
  /\ now = 0
  /\ buckets = [k \in Keys |-> NoBucket]
  /\ cache = EmptyCache
  /\ lastDoc = {}
  /\ pc = [r \in Slots |-> "idle"]
  /\ rq = [r \in Slots |-> NoRq]
  /\ HistInit

\* ------------------------------------------------------------- environment
\* The clock moves on.
Tick ==
  /\ now < MaxTime
  /\ now' = now + 1
  /\ UNCHANGED <<enabled, burst, buckets, configVars, authVars, slotVars, histVars>>

\* The wall clock is stepped back (time.time() is not monotonic).
ClockBack ==
  /\ now > 0
  /\ now' = now - 1
  /\ UNCHANGED <<enabled, burst, buckets, configVars, authVars, slotVars, histVars>>

\* ------------------------------------------- admit calls, one after another
\* One call of _consume(key).
Admit(k) ==
  LET c == Consume(buckets, k, now, burst)
  IN /\ buckets' = c.buckets
     /\ RecordBatch(k, now, c.raised)
     /\ RecordSeq(k, now, c.raised)
     /\ UNCHANGED <<now, enabled, burst, configVars, authVars, slotVars, watch, winVars>>

AdmitInit ==
  /\ ProcessInit
  /\ svc = "api_gateway_local"
  /\ disable_auth = TRUE
  /\ jwks_url = FALSE
  /\ pyjwt = "le"
  /\ enabled = TRUE
  /\ burst \in 0..MaxBurst
  /\ watch \in Keys

AdmitNext ==
  \/ Tick
  \/ ClockBack
  \/ \E k \in Keys : Admit(k)

SpecAdmit == AdmitInit /\ [][AdmitNext]_vars

\* -------------------------------- admit calls, followed over an interval
\* One call of _consume(key), with the interval of the watched key followed.
AdmitWatched(k, open) ==
  LET c == Consume(buckets, k, now, burst)
  IN /\ buckets' = c.buckets
     /\ RecordWindow(k, now, c.raised, open)
     /\ UNCHANGED <<now, enabled, burst, configVars, authVars, slotVars, watch,
                    seqVars, batchVars>>

WindowInit == AdmitInit

WindowNext ==
  \/ Tick
  \/ ClockBack
  \/ \E k \in Keys, open \in BOOLEAN : AdmitWatched(k, open)

SpecWindow == WindowInit /\ [][WindowNext]_vars

\* ------------------------------------------------ requests through a service
\* The applications run on one event loop.  _dep is a coroutine that calls the
\* blocking httpx.Client: while one request waits for the key set, the loop
\* runs nothing else.
LoopFree(r) == \A s \in Slots \ {r} : pc[s] # "fetch"

\* A request reaches the application.
Arrive(r, path, hdr, ip, auth) ==
  /\ pc[r] = "idle"
  /\ pc' = [pc EXCEPT ![r] = "dispatch"]
  /\ rq' = [rq EXCEPT ![r] = [NoRq EXCEPT !.path = path, !.hdr = hdr, !.ip = ip, !.auth = auth]]
  /\ UNCHANGED <<limiterVars, configVars, authVars, histVars>>

\* RateLimitMiddleware.dispatch up to `await call_next(request)`: no suspension
\* point lies in _consume, so the check of one request is one step of the loop.
Dispatch(r) ==
  /\ pc[r] = "dispatch"
  /\ LoopFree(r)
  /\ IF enabled /\ rq[r].path \notin AllowList
     THEN LET k == Key(rq[r].hdr, rq[r].ip)
              c == Consume(buckets, k, now, burst)
              q == [rq[r] EXCEPT !.trace = Append(@, "rate_limit"),
                                 !.rl = IF c.raised THEN "rejected" ELSE "admitted"]
          IN /\ buckets' = c.buckets
             /\ pc' = [pc EXCEPT ![r] = IF c.raised THEN "done" ELSE "route"]
             /\ rq' = [rq EXCEPT ![r] =
                  IF c.raised
                  THEN Raised(q, HttpExc(429, "Rate limit exceeded"), "middleware")
                  ELSE q]
             /\ RecordBatch(k, now, c.raised)
     ELSE /\ pc' = [pc EXCEPT ![r] = "route"]
          /\ rq' = [rq EXCEPT ![r].rl = "skipped"]
          /\ UNCHANGED <<buckets, batchVars>>
  /\ UNCHANGED <<now, enabled, burst, configVars, authVars, watch, seqVars, winVars>>

\* The router: the route's dependencies are solved before its handler is called.
Route(r) ==
  /\ pc[r] = "route"
  /\ LoopFree(r)
  /\ LET step == IF AuthDependency(svc, rq[r].path)
                 THEN Dep([rq[r] EXCEPT !.trace = Append(@, "verify")], cache, now)
                 ELSE [pc |-> "handler", q |-> rq[r]]
     IN /\ pc' = [pc EXCEPT ![r] = step.pc]
        /\ rq' = [rq EXCEPT ![r] = step.q]
  /\ UNCHANGED <<limiterVars, configVars, authVars, histVars>>

\* The blocking key-set fetch of refresh() ends: with an exception, which
\* nothing on the way up catches, or with a document, after which
\* verify_jwt_token goes on.
FetchReturn(r, out) ==
  /\ pc[r] = "fetch"
  /\ LET c == Refresh(cache, out, now)
         step == IF out.ok
                 THEN AfterFetch([rq[r] EXCEPT !.lastFetch = "ok"], c, now)
                 ELSE Stop([rq[r] EXCEPT !.lastFetch = "failed"], OtherExc(out.err))
     IN /\ cache' = c
        /\ lastDoc' = IF out.ok THEN out.doc ELSE lastDoc
        /\ pc' = [pc EXCEPT ![r] = step.pc]
        /\ rq' = [rq EXCEPT ![r] = step.q]
  /\ UNCHANGED <<limiterVars, configVars, histVars>>

\* The user id the client writes in the payload or the path of its request.
ClientUserId == "mallory"

\* The handlers' `headers = {"x-user-id": str(claims.get("sub", user_id))}`:
\* the only header of the request to the other service.
Forwarded(cl) ==
  [sent |-> TRUE,
   x_user_id |-> IF cl.sub # Absent THEN cl.sub ELSE ClientUserId,
   authorization |-> Absent]

\* What a handler that calls no other service returns: healthz its fixed
\* {"status": "ok", "service": <name>}, the others their documents or data.
Payload(s, path) ==
  IF path = "/healthz" THEN <<"status", "ok", "service", s>>
  ELSE IF path \in OpenRoutes THEN <<"openapi">>
  ELSE <<"data">>

\* The route's handler: the gateway's data routes call another service and
\* wait for it; the other routes answer by themselves.
Handler(r) ==
  /\ pc[r] = "handler"
  /\ LoopFree(r)
  /\ IF CallsDownstream(svc, rq[r].path)
     THEN /\ pc' = [pc EXCEPT ![r] = "downstream"]
          /\ rq' = [rq EXCEPT ![r].trace = @ \o <<"handler", "downstream">>,
                              ![r].fwd = Forwarded(rq[r].claims)]
     ELSE /\ pc' = [pc EXCEPT ![r] = "done"]
          /\ rq' = [rq EXCEPT ![r].trace = Append(@, "handler"),
                              ![r].resp = [status |-> 200, detail |-> Payload(svc, rq[r].path)]]
  /\ UNCHANGED <<limiterVars, configVars, authVars, histVars>>

\* What a call of another service can end with: a status, or no answer (0).
DownstreamOutcomes == {200, 404, 503, 0}

\* r.text of the other service's answer.
DownstreamText(out) ==
  IF out = 404 THEN "customer not found"
  ELSE IF out = 503 THEN "duckdb: database file is locked"
  ELSE "downstream json"

\* _post_json that answers every failed call with one generic error.
PostJsonMasked(q, out) ==
  IF out = 0 \/ out >= 400
  THEN Raised(q, HttpExc(502, "Upstream request failed"), "route")
  ELSE [q EXCEPT !.resp = [status |-> 200, detail |-> DownstreamText(out)]]

\* _post_json / _get_json, lines 54-57 and 62-65: an exception of the client
\* (timeout, connection failure) is not caught; a status of 400 or more is
\* raised as HTTPException(status_code=r.status_code, detail=r.text).
PostJson(q, out) ==
  IF out = 0 THEN Raised(q, OtherExc("httpx.TimeoutException"), "route")
  ELSE IF out >= 400 THEN Raised(q, HttpExc(out, DownstreamText(out)), "route")
  ELSE [q EXCEPT !.resp = [status |-> 200, detail |-> DownstreamText(out)]]

\* _post_json / _get_json once the awaited call is over.
DownstreamReturn(r, out) ==
  /\ pc[r] = "downstream"
  /\ LoopFree(r)
  /\ pc' = [pc EXCEPT ![r] = "done"]
  /\ rq' = [rq EXCEPT ![r] = PostJson([@ EXCEPT !.down = out], out)]
  /\ UNCHANGED <<limiterVars, configVars, authVars, histVars>>

\* The response has been sent; the slot is free for another request.
Recycle(r) ==
  /\ pc[r] = "done"
  /\ pc' = [pc EXCEPT ![r] = "idle"]
  /\ rq' = [rq EXCEPT ![r] = NoRq]
  /\ UNCHANGED <<limiterVars, configVars, authVars, histVars>>

\* ------------------------- concurrent admission checks (the middleware alone)
\* `resp = await call_next(request); return resp`: the rest of the application
\* answers the admitted request.
CallNext(r) ==
  /\ pc[r] = "route"
  /\ pc' = [pc EXCEPT ![r] = "idle"]
  /\ rq' = [rq EXCEPT ![r] = NoRq]
  /\ UNCHANGED <<limiterVars, configVars, authVars, histVars>>

RaceInit ==
  /\ ProcessInit
  /\ svc = "conversation_service"
  /\ disable_auth = TRUE
  /\ jwks_url = FALSE
  /\ pyjwt = "le"
  /\ enabled \in BOOLEAN
  /\ burst \in 0..MaxBurst
  /\ watch = Key("u1", "10.0.0.1")

RaceNext ==
  \/ Tick
  \/ \E r \in Slots, p \in Endpoints(svc) : Arrive(r, p, "u1", "10.0.0.1", NoAuth)
  \/ \E r \in Slots : Dispatch(r)
  \/ \E r \in Slots : CallNext(r)
  \/ \E r \in Slots : Recycle(r)

SpecRace == RaceInit /\ [][RaceNext]_vars

\* ------------------------------------------- the three services' pipelines
\* Two requests in flight at once, followed through every stage at one clock
\* reading (the effects of time are those of SpecAdmit and SpecVerify).
Pair == {1, 2}

ServiceAuths ==
  {NoAuth, Basic, Bearer(FALSE, "", "none"), Bearer(TRUE, "", "none"),
   Bearer(TRUE, "k1", "valid"), Bearer(TRUE, "k1", "invalid")}

ServiceDocs == {{}, {"k1"}}

ServiceInit ==
  /\ ProcessInit
  /\ svc \in Services
  /\ disable_auth \in BOOLEAN
  /\ jwks_url \in BOOLEAN
  /\ pyjwt = "le"
  /\ enabled = TRUE
  /\ burst \in 0..MaxBurst
  /\ watch = NoWatch

ServiceNext ==
  \/ \E r \in Pair, p \in Endpoints(svc), a \in ServiceAuths : Arrive(r, p, "", "10.0.0.1", a)
  \/ \E r \in Pair : Dispatch(r)
  \/ \E r \in Pair : Route(r)
  \/ \E r \in Pair, out \in FetchOutcomes(ServiceDocs) : FetchReturn(r, out)
  \/ \E r \in Pair : Handler(r)
  \/ \E r \in Pair, out \in DownstreamOutcomes : DownstreamReturn(r, out)
  \/ \E r \in Pair : Recycle(r)

SpecService == ServiceInit /\ [][ServiceNext]_vars

\* ---------------------------------------------- the verifier and its cache
\* The gateway's requests that carry a token with a key identifier, two at a
\* time, with the rate limiter switched off.
Caller == {1, 2}

VerifyAuths ==
  {Bearer(TRUE, "", "none"), Bearer(TRUE, "k1", "valid"), Bearer(TRUE, "k2", "valid"),
   Bearer(TRUE, "k2", "invalid")}

VerifyInit ==
  /\ ProcessInit
  /\ svc = "api_gateway_local"
  /\ disable_auth = FALSE
  /\ jwks_url = TRUE
  /\ pyjwt = "le"
  /\ enabled = FALSE
  /\ burst = MaxBurst
  /\ watch = NoWatch

VerifyNext ==
  \/ Tick
  \/ ClockBack
  \/ \E r \in Caller, a \in VerifyAuths : Arrive(r, "/v1/chat/message", "", "10.0.0.1", a)
  \/ \E r \in Caller : Dispatch(r)
  \/ \E r \in Caller : Route(r)
  \/ \E r \in Caller, out \in FetchOutcomes(Docs) : FetchReturn(r, out)
  \/ \E r \in Caller : Handler(r)
  \/ \E r \in Caller : DownstreamReturn(r, 200)
  \/ \E r \in Caller : Recycle(r)

SpecVerify == VerifyInit /\ [][VerifyNext]_vars

\* ------------------------------------- the gateway's routes, end to end
\* The gateway's requests from the verifier to the answer of the other
\* service: tokens of several algorithms and key types, with and without a
\* subject, and every outcome of the downstream call.
GatewayAuths ==
  {NoAuth,
   Bearer(TRUE, "k1", "valid"),
   WithAlg(Bearer(TRUE, "k1", "valid"), "HS256"),
   Bearer(TRUE, "ec", "valid"),
   WithoutSub(Bearer(TRUE, "k1", "valid"))}

GatewayDocs == {{"k1", "ec"}}

GatewayInit ==
  /\ ProcessInit
  /\ svc = "api_gateway_local"
  /\ disable_auth \in BOOLEAN
  /\ jwks_url = TRUE
  /\ pyjwt = "le"
  /\ enabled = FALSE
  /\ burst = MaxBurst
  /\ watch = NoWatch

GatewayNext ==
  \/ \E r \in Pair, h \in Hdrs, a \in GatewayAuths :
       Arrive(r, "/v1/chat/message", h, "10.0.0.1", a)
  \/ \E r \in Pair : Dispatch(r)
  \/ \E r \in Pair : Route(r)
  \/ \E r \in Pair, out \in FetchOutcomes(GatewayDocs) : FetchReturn(r, out)
  \/ \E r \in Pair : Handler(r)
  \/ \E r \in Pair, out \in DownstreamOutcomes : DownstreamReturn(r, out)
  \/ \E r \in Pair : Recycle(r)

SpecGateway == GatewayInit /\ [][GatewayNext]_vars

\* ------------------------------------------------- the limiter's allow-list
\* Requests without credential to the open routes and to the data routes of
\* a service whose limiter is on and whose bypass is off, as time passes.
AllowInit ==
  /\ ProcessInit
  /\ svc \in Services
  /\ disable_auth = FALSE
  /\ jwks_url = TRUE
  /\ pyjwt = "le"
  /\ enabled = TRUE
  /\ burst \in 0..MaxBurst
  /\ watch = NoWatch

AllowNext ==
  \/ Tick
  \/ \E r \in Pair, p \in OpenRoutes \cup Endpoints(svc) :
       Arrive(r, p, "", "10.0.0.1", NoAuth)
  \/ \E r \in Pair : Dispatch(r)
  \/ \E r \in Pair : Route(r)
  \/ \E r \in Pair : Handler(r)
  \/ \E r \in Pair : Recycle(r)

SpecAllow == AllowInit /\ [][AllowNext]_vars

\* ------------------------------------------------------ the limiter's keys
\* Requests with and without the x-user-id header from several addresses,
\* through the middleware of a service whose limiter is on.
Addrs == Ips \cup {"10.0.0.2", NoClient}

\* The strings a bucket can be filed under for these requests.
AddrKeys ==
  {<<"user", h>> : h \in Hdrs \ {""}}
    \cup {<<"ip", IF i = NoClient THEN "unknown" ELSE i>> : i \in Addrs}

KeyInit ==
  /\ now = 0
  /\ buckets = [k \in AddrKeys |-> NoBucket]
  /\ cache = EmptyCache
  /\ lastDoc = {}
  /\ pc = [r \in Slots |-> "idle"]
  /\ rq = [r \in Slots |-> NoRq]
  /\ HistInit
  /\ svc = "conversation_service"
  /\ disable_auth = TRUE
  /\ jwks_url = FALSE
  /\ pyjwt = "le"
  /\ enabled = TRUE
  /\ burst \in 1..MaxBurst
  /\ watch = NoWatch

KeyNext ==
  \/ \E r \in Pair, p \in Endpoints(svc), h \in Hdrs, i \in Addrs :
       Arrive(r, p, h, i, NoAuth)
  \/ \E r \in Pair : Dispatch(r)
  \/ \E r \in Pair : CallNext(r)
  \/ \E r \in Pair : Recycle(r)

SpecKey == KeyInit /\ [][KeyNext]_vars

\* ------------------------------------------------------- the token's expiry
\* Tokens of the gateway with a good signature and an expiry time, verified as
\* the clock moves, one tick being a second; times count from the start of
\* the process, so that an expiry time before it is negative.
ExpValues == {0 - Leeway, 1 - Leeway}

ExpiryAuths ==
  {WithExp(Bearer(TRUE, "k1", "valid"), e) : e \in ExpValues}
    \cup {Bearer(TRUE, "k1", "valid"), WithExp(Bearer(TRUE, "k1", "invalid"), 0 - Leeway)}

ExpiryDocs == {{"k1"}}

ExpiryInit ==
  /\ ProcessInit
  /\ svc = "api_gateway_local"
  /\ disable_auth = FALSE
  /\ jwks_url = TRUE
  /\ pyjwt \in {"le", "lt"}
  /\ enabled = FALSE
  /\ burst = MaxBurst
  /\ watch = NoWatch

ExpiryNext ==
  \/ Tick
  \/ \E r \in Pair, a \in ExpiryAuths : Arrive(r, "/v1/chat/message", "", "10.0.0.1", a)
  \/ \E r \in Pair : Dispatch(r)
  \/ \E r \in Pair : Route(r)
  \/ \E r \in Pair, out \in FetchOutcomes(ExpiryDocs) : FetchReturn(r, out)
  \/ \E r \in Pair : Handler(r)
  \/ \E r \in Pair : DownstreamReturn(r, 200)
  \/ \E r \in Pair : Recycle(r)

SpecExpiry == ExpiryInit /\ [][ExpiryNext]_vars

\* ================================================================== claims
Has(seq, x) == \E i \in DOMAIN seq : seq[i] = x

\* ---------------------------------------------------------------------- C1
\* C1: in a run of admission checks of one key made by concurrent requests at
\* one clock reading, starting from a full bucket (new, or refilled to burst),
\* exactly min(N, burst) of the N checks are admitted and every admission has
\* spent a token of its own, whatever the order in which the requests are
\* checked.
C1_ConcurrentAdmission ==
  batchStart \in {"new", "full"} =>
    /\ batchAdm = Min(batchN, burst)
    /\ buckets[watch].tokens = Capacity(burst) - batchAdm * OneToken

\* More requests than tokens were checked at one clock reading, and an admitted
\* and a rejected request are in flight together.
C1_Witness ==
  /\ burst >= 1
  /\ batchStart \in {"new", "full"}
  /\ batchN > burst
  /\ \E r1, r2 \in Slots :
       /\ pc[r1] = "route" /\ rq[r1].rl = "admitted"
       /\ pc[r2] = "done" /\ rq[r2].rl = "rejected"

\* ---------------------------------------------------------------------- C2
\* C2: for a key never seen before, the first admit call succeeds when
\* burst >= 1, and after burst admissions at the clock reading of the first,
\* the call number burst + 1 is rejected.
C2_FreshKey ==
  batchStart = "new" =>
    /\ (burst >= 1 /\ batchN = 1 => last = "admitted")
    /\ (batchN = burst + 1 => last = "rejected" /\ batchAdm = burst)

C2_Witness ==
  /\ batchStart = "new"
  /\ burst >= 2
  /\ batchN = burst + 1
  /\ batchAdm = burst
  /\ last = "rejected"

\* ---------------------------------------------------------------------- C3
\* C3 as stated: a check made exactly 1/rps after a rejection of the same key,
\* with no check of that key in between, is admitted, and the check straight
\* after it at the same clock reading is rejected.
C3_Original ==
  /\ (phase = "waited" => last = "admitted")
  /\ (phase = "after" => last = "rejected")

\* C3, amended: the same, for a limiter whose burst is at least 1.
C3_AfterWait == burst >= 1 => C3_Original

C3_Witness ==
  /\ burst >= 1
  /\ phase = "after"
  /\ last = "rejected"
  /\ batchAdm = 1

\* ---------------------------------------------------------------------- C4
\* C4: every bucket holds between 0 and burst tokens, after any admit calls on
\* any keys at any clock readings, the clock stepped back included.
C4_TokenBounds ==
  \A k \in Keys :
    buckets[k] # NoBucket =>
      /\ 0 <= buckets[k].tokens
      /\ buckets[k].tokens <= Capacity(burst)

\* A bucket refilled by part of a token, checked after the clock went back.
C4_Witness ==
  \E k \in Keys :
    /\ buckets[k] # NoBucket
    /\ buckets[k].tokens % OneToken # 0
    /\ buckets[k].tokens < Capacity(burst)
    /\ buckets[k].updated_at > now

\* ---------------------------------------------------------------------- C5
StageOrder(x) ==
  IF x = "rate_limit" THEN 1 ELSE IF x = "verify" THEN 2 ELSE IF x = "handler" THEN 3 ELSE 4

VerifierRejected(q) == Has(q.trace, "verify") /\ q.idn = "none" /\ q.exc # NoExc

\* C5: a gateway request passes the rate-limit check, then the identity
\* verification, then the handler, then the call of the other service, in this
\* order; a request the rate limiter or the verifier rejected never reaches
\* the handler and makes no call.
C5_StageOrder ==
  svc = "api_gateway_local" =>
    \A r \in Slots :
      LET tr == rq[r].trace
      IN /\ \A i, j \in DOMAIN tr : i < j => StageOrder(tr[i]) < StageOrder(tr[j])
         /\ (enabled /\ Has(tr, "verify") => Has(tr, "rate_limit"))
         /\ (Has(tr, "handler") /\ rq[r].path # "/healthz" => Has(tr, "verify"))
         /\ (Has(tr, "downstream") => Has(tr, "handler"))
         /\ (rq[r].rl = "rejected" \/ VerifierRejected(rq[r]) =>
               /\ pc[r] = "done"
               /\ ~Has(tr, "handler")
               /\ ~Has(tr, "downstream"))

\* One request has passed every stage and waits for the other service, while
\* another was stopped by the verifier.
C5_Witness ==
  /\ svc = "api_gateway_local"
  /\ \E r, s \in Slots :
       /\ pc[r] = "downstream"
       /\ rq[r].trace = <<"rate_limit", "verify", "handler", "downstream">>
       /\ rq[r].idn = "verified"
       /\ VerifierRejected(rq[s])
       /\ rq[s].trace = <<"rate_limit", "verify">>

\* ---------------------------------------------------------------------- C6
\* C6: the response to a request that the rate limiter rejected (429), or whose
\* credential the verifier rejected (401), carries the status and the detail of
\* the exception the stage raised.
C6_ErrorKindKept ==
  \A r \in Slots :
    (pc[r] = "done" /\ rq[r].exc.http /\ rq[r].exc.status \in {401, 429}) =>
      rq[r].resp = [status |-> rq[r].exc.status, detail |-> rq[r].exc.detail]

\* ---------------------------------------------------------------------- C7
\* C7: in each of the three services, a handler other than the health check
\* runs only for a request for which an identity decision (verified, or the
\* configured bypass) has been made.
C7_Chokepoint ==
  \A r \in Slots :
    (Has(rq[r].trace, "handler") /\ rq[r].path # "/healthz") => rq[r].idn # "none"

\* ---------------------------------------------------------------------- C8
\* C8: a verification whose key identifier is absent from the cached, fresh
\* key set makes one key-set fetch and no more, whatever that fetch returns.
C8_OneRefresh ==
  \A r \in Slots : rq[r].missFresh => rq[r].fetches <= 1

\* ---------------------------------------------------------------------- C9
\* C9: a key-set fetch that fails ends the verification with the exception of
\* the fetch, yields no identity, and leaves the cached key set and its fetch
\* time as they were.
C9_FailedFetchKeepsCache ==
  [][\A r \in Slots :
       (pc[r] = "fetch" /\ pc'[r] # "fetch" /\ rq'[r].lastFetch = "failed") =>
         /\ cache' = cache
         /\ pc'[r] = "done"
         /\ rq'[r].exc \in {OtherExc(e) : e \in FetchFailures}
         /\ rq'[r].idn = "none"]_vars

\* A fetch has failed and the key set loaded before it is still cached, past
\* its time to live.
C9_Witness ==
  /\ cache.loaded
  /\ cache.kids # {}
  /\ now - cache.fetched_at > TtlTicks
  /\ \E r \in Slots : pc[r] = "done" /\ rq[r].lastFetch = "failed"

\* --------------------------------------------------------------------- C10
\* C10: the cached key set is the initial empty one until a fetch succeeds, and
\* from then on exactly the keys of the document of the latest successful
\* fetch: no key of an earlier document survives a refresh.
C10_Wholesale ==
  IF cache.loaded
  THEN cache.kids = {k \in lastDoc : k # ""}
  ELSE cache = EmptyCache /\ lastDoc = {}

\* The cached set has been replaced by one that drops a key it held, while a
\* second request is in flight.
C10_Witness ==
  /\ cache.loaded
  /\ cache.kids = {"k2"}
  /\ \E r, s \in Slots :
       /\ r # s
       /\ rq[r].fetches >= 1 /\ rq[r].missFresh
       /\ pc[s] # "idle"

\* --------------------------------------------------------------------- C11
\* C11: while one request waits for the key set, every other request that is
\* ready for its next stage (admission, verification, handler) can take it.
C11_OthersProgress ==
  \A a, b \in Slots :
    (a # b /\ pc[a] = "fetch" /\ pc[b] \in {"dispatch", "route", "handler"}) =>
      ENABLED (Dispatch(b) \/ Route(b) \/ Handler(b))

\* --------------------------------------------------------------------- C12
\* C12: with the bypass flag set, every request that reaches the identity
\* stage gets the same placeholder identity (sub local-user, scope local),
\* whatever Authorization header it carries, and no key set is fetched and no
\* token is decoded.
C12_BypassFixedIdentity ==
  disable_auth =>
    /\ cache = EmptyCache
    /\ \A r \in Slots :
         /\ rq[r].fetches = 0
         /\ ~rq[r].decoded
         /\ rq[r].claims = IF Has(rq[r].trace, "verify")
                           THEN [sub |-> "local-user", scope |-> "local"]
                           ELSE NoClaims
         /\ (Has(rq[r].trace, "verify") => rq[r].idn = "bypass")

\* Two requests, one without a header and one with an unparsable token, both
\* hold the placeholder identity.
C12_Witness ==
  /\ disable_auth
  /\ \E r, s \in Slots :
       /\ rq[r].auth = NoAuth /\ rq[r].claims = LocalClaims
       /\ rq[s].auth = Bearer(FALSE, "", "none") /\ rq[s].claims = LocalClaims

\* --------------------------------------------------------------------- C13
\* The credential is missing or of another scheme.
NoBearer(a) == a.scheme # "bearer"

\* The token's header cannot be parsed, or lacks a key identifier.
BadHeader(a) == a.scheme = "bearer" /\ (~a.parse \/ a.kid = "")

\* With the bypass off, an identity is held only by a request whose token was
\* decoded with a valid signature, and it is never the placeholder.
OnlyVerified ==
  \A r \in Slots :
    /\ rq[r].claims # LocalClaims
    /\ rq[r].idn \in {"none", "verified"}
    /\ (rq[r].idn = "verified" =>
          rq[r].decoded /\ rq[r].auth.sig = "valid" /\ ~NoBearer(rq[r].auth)
            /\ ~BadHeader(rq[r].auth))

\* The request was rejected by the verifier with 401, and got no identity.
Unauthenticated(r) ==
  /\ pc[r] = "done"
  /\ rq[r].idn = "none"
  /\ rq[r].exc.http /\ rq[r].exc.status = 401
  /\ rq[r].resp.status = 401

\* C13 as stated: with the bypass off, no request gets an identity without a
\* successful verification, and a request whose credential is missing, not a
\* bearer token, unparsable or without key identifier is rejected with 401.
C13_Original ==
  ~disable_auth =>
    /\ OnlyVerified
    /\ \A r \in Slots :
         (Has(rq[r].trace, "verify") /\ (NoBearer(rq[r].auth) \/ BadHeader(rq[r].auth)))
           => Unauthenticated(r)

\* C13, amended: the same, where a bearer token with a bad header is rejected
\* with 401 when a key-set URL is configured, and with the 500 of the missing
\* configuration when none is; no identity in either case.
C13_NoIdentityUnverified ==
  ~disable_auth =>
    /\ OnlyVerified
    /\ \A r \in Slots :
         Has(rq[r].trace, "verify") =>
           /\ (NoBearer(rq[r].auth) => Unauthenticated(r))
           /\ (BadHeader(rq[r].auth) /\ jwks_url => Unauthenticated(r))
           /\ (BadHeader(rq[r].auth) /\ ~jwks_url =>
                 /\ pc[r] = "done"
                 /\ rq[r].idn = "none"
                 /\ rq[r].resp = [status |-> 500, detail |-> "JWKS_URL is not configured"])

\* A request without a key identifier and one with another scheme are both
\* rejected while a third kind, a verified one, is possible in the same run.
C13_Witness ==
  /\ ~disable_auth
  /\ jwks_url
  /\ \E r, s \in Slots :
       /\ rq[r].auth = Bearer(TRUE, "", "none") /\ Unauthenticated(r)
       /\ rq[s].auth = Basic /\ Unauthenticated(s)

\* --------------------------------------------------------------------- C14
\* C14: a token whose header declares another algorithm than RS256, or whose
\* key identifier resolves to a key that is no RSA key, never yields an
\* identity, and once its key is resolved it is rejected with 401.
C14_OnlyRS256 ==
  ~disable_auth =>
    \A r \in Slots :
      (rq[r].auth.parse /\ (rq[r].auth.alg # "RS256" \/ Kty(rq[r].auth.kid) # "RSA")) =>
        /\ rq[r].idn = "none"
        /\ rq[r].claims = NoClaims
        /\ (pc[r] = "done" /\ rq[r].lastFetch # "failed" =>
              rq[r].exc.http /\ rq[r].exc.status = 401 /\ rq[r].resp.status = 401)

\* --------------------------------------------------------------------- C15
\* C15: when the call of the other service ends with a 4xx status, the
\* gateway's response has that status and, as its message, the text of the
\* other service's answer.
C15_ClientErrorVerbatim ==
  \A r \in Slots :
    (rq[r].down >= 400 /\ rq[r].down < 500) =>
      /\ pc[r] = "done"
      /\ rq[r].resp = [status |-> rq[r].down, detail |-> DownstreamText(rq[r].down)]

\* A verified request got the 404 of the other service.
C15_Witness ==
  \E r \in Slots :
    /\ rq[r].idn = "verified"
    /\ rq[r].down = 404
    /\ rq[r].resp = [status |-> 404, detail |-> "customer not found"]

\* --------------------------------------------------------------------- C16
\* The call of the other service failed with a 5xx status, or got no answer.
ServerClassFailure(q) == q.down = 0 \/ q.down >= 500

\* C16: when the call of the other service ends with a 5xx status or with no
\* answer, the response is a server error that carries nothing of the other
\* service's answer, and it is the same response for every such failure.
C16_ServerErrorMasked ==
  \A r, s \in Slots :
    (ServerClassFailure(rq[r]) /\ ServerClassFailure(rq[s])) =>
      /\ rq[r].resp.status >= 500
      /\ rq[r].resp.detail # DownstreamText(rq[r].down)
      /\ rq[r].resp = rq[s].resp

\* --------------------------------------------------------------------- C17
\* C17: the request the gateway sends to the other service carries as
\* x-user-id the subject of the claims the verifier returned, never the user
\* id the client supplied, and no Authorization header.
C17_SubjectForwarded ==
  \A r \in Slots :
    rq[r].fwd.sent =>
      /\ rq[r].fwd.x_user_id = rq[r].claims.sub
      /\ rq[r].fwd.x_user_id # ClientUserId
      /\ rq[r].fwd.authorization = Absent

\* --------------------------------------------------------------------- C18
\* C18: the rate-limit stage of a request to /healthz, /docs or /openapi.json
\* lets it pass and leaves every bucket as it was, none created and none
\* charged; such a request is never answered as rate limited; and the health
\* check is answered with its fixed payload without any identity stage.
C18_AllowListBypass ==
  [][\A r \in Slots :
       /\ (pc[r] = "dispatch" /\ pc'[r] # "dispatch"
             /\ rq[r].path \in {"/healthz", "/docs", "/openapi.json"}) =>
             /\ buckets' = buckets
             /\ pc'[r] = "route"
             /\ rq'[r].rl = "skipped"
             /\ rq'[r].exc = NoExc
       /\ (rq'[r].path \in {"/healthz", "/docs", "/openapi.json"}) =>
             rq'[r].rl # "rejected" /\ rq'[r].exc = NoExc
       /\ (rq'[r].path = "/healthz" /\ pc'[r] = "done") =>
             /\ rq'[r].resp = [status |-> 200, detail |-> <<"status", "ok", "service", svc>>]
             /\ rq'[r].trace = <<"handler">>
             /\ rq'[r].idn = "none"]_vars

\* The health check was answered for a caller whose bucket is empty and whose
\* data request was just rejected.
C18_Witness ==
  /\ burst >= 1
  /\ ~disable_auth
  /\ buckets[<<"ip", "10.0.0.1">>] # NoBucket
  /\ buckets[<<"ip", "10.0.0.1">>].tokens < OneToken
  /\ \E r, s \in Slots :
       /\ rq[r].path = "/healthz" /\ pc[r] = "done" /\ rq[r].resp.status = 200
       /\ rq[s].path \notin {"/healthz", "/docs", "/openapi.json"}
       /\ rq[s].rl = "rejected"

\* --------------------------------------------------------------------- C19
\* The key the claim derives for a request: the x-user-id header when it is
\* present and non-empty, the network address otherwise.
DerivedKey(q) ==
  IF q.hdr # "" THEN <<"user", q.hdr>>
  ELSE <<"ip", IF q.ip = "" THEN "unknown" ELSE q.ip>>

\* C19: the admission check of a request charges the bucket of the key
\* derived from its x-user-id header when it has one, and from its network
\* address only otherwise, and touches no other bucket: two requests share a
\* bucket exactly when they derive the same key.
C19_KeyDerivation ==
  [][\A r \in Slots :
       (pc[r] = "dispatch" /\ pc'[r] # "dispatch" /\ rq'[r].rl # "skipped") =>
         /\ buckets'[DerivedKey(rq[r])] # NoBucket
         /\ (rq'[r].rl = "admitted" =>
               buckets'[DerivedKey(rq[r])] # buckets[DerivedKey(rq[r])])
         /\ \A k \in DOMAIN buckets :
              k # DerivedKey(rq[r]) => buckets'[k] = buckets[k]]_vars

\* Two requests with the same header from different addresses were charged to
\* one bucket, and a request without header to the bucket of its address.
C19_Witness ==
  /\ burst >= 2
  /\ buckets[<<"user", "u1">>] # NoBucket
  /\ buckets[<<"user", "u1">>].tokens = Capacity(burst) - 2 * OneToken
  /\ buckets[<<"ip", "10.0.0.1">>] = NoBucket
  /\ buckets[<<"ip", "10.0.0.2">>] # NoBucket
  /\ \E r, s \in Slots :
       /\ rq[r].hdr = "u1" /\ rq[s].hdr = "u1"
       /\ rq[r].ip = "10.0.0.1" /\ rq[s].ip = "10.0.0.2"
       /\ rq[r].rl = "admitted" /\ rq[s].rl = "admitted"

\* --------------------------------------------------------------------- C20
\* C20: the exception that reports a rejected admission carries a Retry-After
\* value.
C20_RetryAfter ==
  \A r \in Slots :
    rq[r].rl = "rejected" =>
      /\ rq[r].exc.http /\ rq[r].exc.status = 429
      /\ "Retry-After" \in rq[r].exc.headers

\* --------------------------------------------------------------------- C21
\* The step in which jwt.decode is applied to the token of request r, whose
\* signature is good and whose payload has the expiry time e.
DecodesWithExp(r, e) ==
  /\ ~rq[r].decoded
  /\ rq'[r].decoded
  /\ rq[r].auth.sig = "valid"
  /\ rq[r].auth.exp = {e}

\* The token of request r was accepted, or rejected as expired.
Accepted(q) == q.idn = "verified" /\ q.exc = NoExc
RejectedExpired(q) ==
  /\ q.idn = "none"
  /\ q.exc = [http |-> TRUE, status |-> 401, detail |-> "JWT expired", headers |-> {}]

\* C21 as stated: a correctly signed token is rejected as expired exactly when
\* the time is past its expiry plus 10 seconds; at expiry plus 10 seconds it
\* is still accepted.
C21_Original ==
  [][\A r \in Slots : \A e \in rq[r].auth.exp :
       DecodesWithExp(r, e) =>
         IF now > e + 10 THEN RejectedExpired(rq'[r]) ELSE Accepted(rq'[r])]_vars

\* C21, amended: a correctly signed token is accepted before its expiry plus
\* 10 seconds and rejected as expired after it; at exactly expiry plus 10
\* seconds it is one or the other.
C21_ExpiryLeeway ==
  [][\A r \in Slots : \A e \in rq[r].auth.exp :
       DecodesWithExp(r, e) =>
         /\ (now < e + 10 => Accepted(rq'[r]))
         /\ (now > e + 10 => RejectedExpired(rq'[r]))
         /\ (now = e + 10 => Accepted(rq'[r]) \/ RejectedExpired(rq'[r]))]_vars

\* One token was rejected as expired after its boundary and another, a second
\* younger, was accepted.
C21_Witness ==
  /\ pyjwt = "lt"
  /\ \E r, s \in Slots :
       /\ rq[r].auth.exp = {0 - 10} /\ RejectedExpired(rq[r])
       /\ rq[s].auth.exp = {1 - 10} /\ rq[s].idn = "verified"

\* --------------------------------------------------------------------- C22
\* The key set as the claim reads it: none has been loaded, or the loaded one
\* is older than its time to live.
Stale(c, t) == ~c.loaded \/ (t - c.fetched_at) > TtlTicks

\* The step of request r in which verify_jwt_token makes its first
\* cache.get_key(kid) call (line 64): it consults the cache as it is.
FirstGetKey(r) ==
  /\ pc[r] = "route"
  /\ pc'[r] # "route"
  /\ AuthDependency(svc, rq[r].path)
  /\ ~disable_auth
  /\ jwks_url
  /\ rq[r].auth.scheme = "bearer"
  /\ rq[r].auth.parse
  /\ rq[r].auth.kid # ""

\* The step of request r in which a fetch started at `site` returns a document.
FetchAnswered(r, site) ==
  /\ pc[r] = "fetch"
  /\ rq[r].site = site
  /\ <<pc'[r], rq'[r]>> # <<pc[r], rq[r]>>
  /\ rq'[r].lastFetch = "ok"

\* The lookup of this step begins with a fetch of its own.
LookupFetches(r, site) == pc'[r] = "fetch" /\ rq'[r].site = site

\* C22: a key-cache lookup fetches the key set if and only if no key set has
\* been loaded or the loaded one is older than its time to live (age equal to
\* the time to live is fresh); a lookup against a loaded, fresh key set fetches
\* nothing whatever keys the set holds; and once a lookup has found the key,
\* the same call starts no further fetch.
C22_FetchIffStale ==
  [][\A r \in Slots :
       /\ FirstGetKey(r) =>
            /\ LookupFetches(r, "get_key") <=> Stale(cache, now)
            /\ (~Stale(cache, now) /\ Found(cache, rq[r].auth.kid)) => pc'[r] # "fetch"
       /\ FetchAnswered(r, "refresh") =>
            (LookupFetches(r, "retry") <=> Stale(cache', now))
       /\ (FetchAnswered(r, "get_key") \/ FetchAnswered(r, "retry")) =>
            (Found(cache', rq[r].auth.kid) => pc'[r] # "fetch")]_vars

\* What the code does: the same, with a loaded key set that holds no key
\* counted as not loaded.
C22_FetchIffExpired ==
  [][\A r \in Slots :
       /\ FirstGetKey(r) =>
            /\ LookupFetches(r, "get_key") <=> Expired(cache, now)
            /\ (~Expired(cache, now) /\ Found(cache, rq[r].auth.kid)) => pc'[r] # "fetch"
       /\ FetchAnswered(r, "refresh") =>
            (LookupFetches(r, "retry") <=> Expired(cache', now))
       /\ (FetchAnswered(r, "get_key") \/ FetchAnswered(r, "retry")) =>
            (Found(cache', rq[r].auth.kid) => pc'[r] # "fetch")]_vars

\* A lookup has fetched the key set although the cached one was loaded within
\* its time to live: it held no key.
C22_EmptyRefetched ==
  /\ cache.loaded
  /\ cache.kids = {}
  /\ now - cache.fetched_at <= TtlTicks
  /\ \E r \in Slots : pc[r] = "fetch" /\ rq[r].site = "retry"

\* --------------------------------------------------------------------- C23
\* C23: over an interval of checks of one key whose clock readings do not
\* decrease, the admissions number at most burst + rps * T, T the length of the
\* interval, whatever checks came before it; and a refill never lowers the
\* tokens of a bucket.
C23_RateBound ==
  /\ winOpen => winAdm * OneToken <= Capacity(burst) + (winLast - winStart)
  /\ \A k \in Keys :
       buckets[k] # NoBucket => Refill(buckets[k], now, burst).tokens >= buckets[k].tokens

\* An interval has used the whole of the bound, tokens refilled during it
\* included, and the clock has since been stepped back behind the bucket's
\* time of update.
C23_Witness ==
  /\ winOpen
  /\ burst >= 1
  /\ winLast > winStart
  /\ winAdm * OneToken > Capacity(burst)
  /\ winAdm * OneToken + OneToken > Capacity(burst) + (winLast - winStart)
  /\ now < buckets[watch].updated_at

\* --------------------------------------------------------------------- C24
\* The verifier rejected the token of q for its header.
RejectedMalformed(q) ==
  q.exc \in {HttpExc(401, "Invalid JWT header"), HttpExc(401, "JWT missing kid")}

\* C24: a token whose header cannot be parsed or names no key is rejected
\* before the key cache is consulted: the step that rejects it leaves the
\* cached key set and its fetch time as they were, and the request never
\* starts a key-set fetch.
C24_MalformedBeforeCache ==
  [][\A r \in Slots :
       /\ (BadHeader(rq'[r].auth) => pc'[r] # "fetch" /\ rq'[r].fetches = 0)
       /\ (/\ pc[r] = "route"
           /\ pc'[r] # "route"
           /\ AuthDependency(svc, rq[r].path)
           /\ ~disable_auth
           /\ jwks_url
           /\ BadHeader(rq[r].auth))
          => /\ pc'[r] = "done"
             /\ RejectedMalformed(rq'[r])
             /\ rq'[r].idn = "none"
             /\ cache' = cache
             /\ lastDoc' = lastDoc]_vars

\* Both kinds of malformed token have been rejected while the cache was one
\* that a lookup would have had to fetch.
C24_Witness ==
  /\ Expired(cache, now)
  /\ \E r, s \in Slots :
       /\ pc[r] = "done"
       /\ rq[r].exc = HttpExc(401, "Invalid JWT header")
       /\ rq[r].fetches = 0
       /\ pc[s] = "done"
       /\ rq[s].exc = HttpExc(401, "JWT missing kid")
       /\ rq[s].fetches = 0

====
